---- MODULE Spec2Model ----
(***************************************************************************)
(* Model of the chat server (server/index.js): the POST /conversations     *)
(* get-or-create handler, the GET /messages history query and the          *)
(* Socket.IO event handlers, over the Prisma store (User, Conversation,    *)
(* Membership, Message tables).                                            *)
(*                                                                         *)
(* Every `await prisma...` is a point where other handlers may run; a      *)
(* handler is therefore split into the step that issues the request, the   *)
(* step in which the store executes it, and the continuation that sends    *)
(* the response or the broadcast.                                          *)
(***************************************************************************)
EXTENDS Bags, FiniteSets, Integers, Sequences, TLC

\* ---------------------------------------------------------------- bounds
NumUsers == 2        \* registered users 1..NumUsers
MaxMembers == 2      \* longest memberIds array of a request body
MaxPosts == 2        \* POST /conversations requests received in a run
MaxRacePosts == 3    \* the same, in the runs that race two requests before a third
MaxConns == 2        \* Socket.IO connections accepted in a run
MaxEvents == 1       \* typing and send_message events handled in a run
MaxAcks == 3         \* ack_delivered and ack_read events handled in a run
NumRooms == 2        \* conversation ids 1..NumRooms an event may name
MaxMsgs == 2         \* message ids 1..MaxMsgs an acknowledgment may name
MaxHist == 3         \* rows of the Message table when history is read
MaxLimit == 2        \* largest explicit limit of GET /messages
MaxFetches == 1      \* GET /messages handlers suspended at once
MaxBurst == 2        \* send_message events of a burst of two connected users

\* ------------------------------------------------------------- constants
NoId == 0            \* a missing / empty id (falsy in the handlers' guards)
DefaultLimit == 50   \* limit of GET /messages when the query names none
Null == "null"       \* JavaScript null

Users == 1..NumUsers
\* ids a request body may name: the registered users and one unregistered id
UserIds == 1..(NumUsers + 1)
Titles == {Null, "team"}
Cids == 0..NumRooms          \* 0: the event carries no cid
MsgIds == 0..MaxMsgs         \* 0: the event carries no msgId
NoKind == ""                 \* the event carries no kind
\* send_message payloads: no kind, text with and without a body, file with and
\* without a url
SendPayloads ==
  {[kind |-> NoKind, text |-> "hi", fileUrl |-> Null],
   [kind |-> "text", text |-> "hi", fileUrl |-> Null],
   [kind |-> "text", text |-> Null, fileUrl |-> Null],
   [kind |-> "file", text |-> Null, fileUrl |-> "/uploads/f"],
   [kind |-> "file", text |-> Null, fileUrl |-> Null]}
AckFields == {"deliveredTo", "readBy"}

VARIABLES
  conversations,   \* Conversation table: sequence of rows, id = position
  memberships,     \* Membership table: sequence of rows
  requests,        \* bag of POST /conversations handlers suspended at an await
  nPosts,          \* number of POST /conversations requests received
  firstAnswer,     \* unordered pair -> id answered by the first completed direct request
  lastResponse,    \* the HTTP response sent last
  budget,          \* how many requests, connections and events a run may take
  alive,           \* FALSE once an unhandled rejection has ended the process
  messages,        \* Message table: sequence of rows, id = position
  lastSeenAt,      \* User.lastSeenAt: number of updates per user
  conns,           \* sockets: authenticated user, open or closed, rooms joined
  tasks,           \* bag of socket event handlers suspended at an await
  emitted,         \* the broadcasts made, in order, each with its recipients
  nEvents,         \* number of typing and send_message events handled
  nAcks,           \* number of ack_delivered and ack_read events handled
  nSends,          \* send_message events that passed the guard, by whether their
                   \* cid named a stored conversation when they arrived
  acked,           \* field -> message id -> users whose acknowledgment handler finished
  lastDone,        \* field -> message id -> the acknowledgment that finished last
  fetches,         \* bag of GET /messages handlers suspended at findMany
  page,            \* the GET /messages response sent last
  pager            \* a client paging backwards: the pages it has got so far

convVars == <<conversations, memberships, requests, nPosts, firstAnswer, lastResponse>>
rtVars == <<messages, lastSeenAt, conns, tasks, emitted, nEvents, nAcks, nSends,
           acked, lastDone>>
histVars == <<fetches, page, pager>>

\* ---------------------------------------------------------------- helpers
Range(s) == {s[i] : i \in 1..Len(s)}

SeqsUpTo(S, n) == UNION {[1..k -> S] : k \in 0..n}

\* the array as it is, duplicates kept
DedupNone(arr) == arr

\* Array.from(new Set(arr)): first occurrences, in order
RECURSIVE Dedup(_)
Dedup(arr) ==
  IF arr = <<>> THEN <<>>
  ELSE LET front == Dedup(SubSeq(arr, 1, Len(arr) - 1))
           last == arr[Len(arr)]
       IN IF last \in Range(front) THEN front ELSE Append(front, last)

\* rows of the Membership table that belong to conversation c
MembershipsOf(c) == SelectSeq(memberships, LAMBDA m : m.conversationId = c)

MembersOf(c) == {m.userId : m \in Range(MembershipsOf(c))}

\* the where-clause of prisma.conversation.findFirst
DirectMatches(u1, u2) ==
  {c \in 1..Len(conversations) :
     /\ conversations[c].isGroup = FALSE
     /\ \E m \in Range(memberships) : m.conversationId = c /\ m.userId = u1
     /\ \E m \in Range(memberships) : m.conversationId = c /\ m.userId = u2}

\* what a handler answered, and the request it answers
NoResponse == [status |-> 0, conv |-> NoId, created |-> FALSE, members |-> <<>>,
               isGroup |-> FALSE, prior |-> NoId]

ResponseOf(r) == [status |-> r.status, conv |-> r.conv, created |-> r.created,
                  members |-> r.members, isGroup |-> r.isGroup, prior |-> r.prior]

Pairs == {p \in SUBSET UserIds : Cardinality(p) = 2}

\* ------------------------------------------------- POST /conversations
\* rejects a direct request only when it names nobody but the requester
IsBadDirectTooFew(isGroup, uniqueMemberIds) ==
  ~isGroup /\ Len(uniqueMemberIds) < 2

\* if (!isGroup) { if (uniqueMemberIds.length !== 2) return 400 }
IsBadDirect(isGroup, uniqueMemberIds) ==
  ~isGroup /\ Len(uniqueMemberIds) # 2

\* looks for an existing direct conversation for every 2-member request
FirstAwaitAlwaysFind(isGroup, uniqueMemberIds) ==
  IF Len(uniqueMemberIds) = 2 THEN "findFirst" ELSE "create"

\* the store call the handler suspends at first: findFirst for a direct
\* request, create for a group
FirstAwait(isGroup, uniqueMemberIds) ==
  IF isGroup THEN "create" ELSE "findFirst"

\* the handler up to its first await
PostConversations(uid, memberIds, isGroup, title) ==
  /\ alive
  /\ nPosts < budget.posts
  /\ nPosts' = nPosts + 1
  /\ LET uniqueMemberIds == Dedup(<<uid>> \o memberIds)
         req == [members |-> uniqueMemberIds, isGroup |-> isGroup,
                 title |-> title, pc |-> "create",
                 status |-> 0, conv |-> NoId, created |-> FALSE,
                 prior |-> IF ~isGroup /\ Range(uniqueMemberIds) \in Pairs
                           THEN firstAnswer[Range(uniqueMemberIds)] ELSE NoId]
     IN IF IsBadDirect(isGroup, uniqueMemberIds)
        THEN /\ lastResponse' = ResponseOf([req EXCEPT !.status = 400])
             /\ UNCHANGED requests
        ELSE /\ requests' = requests (+) SetToBag({[req EXCEPT !.pc =
                                 FirstAwait(isGroup, uniqueMemberIds)]})
             /\ UNCHANGED lastResponse
  /\ UNCHANGED <<conversations, memberships, firstAnswer, budget, alive, rtVars, histVars>>

\* the store answers findFirst; the handler returns the match or goes on to create
ConversationFindFirst(r) ==
  /\ alive
  /\ BagIn(r, requests)
  /\ r.pc = "findFirst"
  /\ LET matches == DirectMatches(r.members[1], r.members[2])
     IN \/ /\ matches = {}
           /\ requests' = (requests (-) SetToBag({r}))
                            (+) SetToBag({[r EXCEPT !.pc = "create"]})
        \/ \E existing \in matches :
             requests' = (requests (-) SetToBag({r})) (+) SetToBag({
               IF Len(MembershipsOf(existing)) = 2
               THEN [r EXCEPT !.pc = "respond", !.status = 200, !.conv = existing]
               ELSE [r EXCEPT !.pc = "create"]})
  /\ UNCHANGED <<conversations, memberships, nPosts, firstAnswer, lastResponse,
                 budget, alive, rtVars, histVars>>

\* the store executes conversation.create with its nested membership rows
ConversationCreate(r) ==
  /\ alive
  /\ BagIn(r, requests)
  /\ r.pc = "create"
  /\ IF Range(r.members) \subseteq Users
     THEN LET id == Len(conversations) + 1
          IN /\ conversations' = Append(conversations,
                   [id |-> id, isGroup |-> r.isGroup, title |-> r.title])
             /\ memberships' = memberships \o
                   [i \in 1..Len(r.members) |->
                      [userId |-> r.members[i], conversationId |-> id]]
             /\ requests' = (requests (-) SetToBag({r})) (+) SetToBag({
                   [r EXCEPT !.pc = "respond", !.status = 200, !.conv = id,
                             !.created = TRUE]})
     ELSE \* Membership_userId_fkey fails, the nested write is rolled back
          /\ requests' = (requests (-) SetToBag({r})) (+) SetToBag({
                   [r EXCEPT !.pc = "respond", !.status = 500]})
          /\ UNCHANGED <<conversations, memberships>>
  /\ UNCHANGED <<nPosts, firstAnswer, lastResponse, budget, alive, rtVars, histVars>>

\* res.json(existing) / res.json(convo) / res.status(500)
ConversationRespond(r) ==
  /\ alive
  /\ BagIn(r, requests)
  /\ r.pc = "respond"
  /\ requests' = requests (-) SetToBag({r})
  /\ lastResponse' = ResponseOf(r)
  /\ firstAnswer' =
       IF /\ ~r.isGroup /\ r.status = 200 /\ Range(r.members) \in Pairs
          /\ firstAnswer[Range(r.members)] = NoId
       THEN [firstAnswer EXCEPT ![Range(r.members)] = r.conv]
       ELSE firstAnswer
  /\ UNCHANGED <<conversations, memberships, nPosts, budget, alive, rtVars, histVars>>

NextConv ==
  \/ \E uid \in Users, memberIds \in SeqsUpTo(UserIds, MaxMembers),
        isGroup \in BOOLEAN, title \in Titles :
       PostConversations(uid, memberIds, isGroup, title)
  \/ \E r \in BagToSet(requests) : ConversationFindFirst(r)
  \/ \E r \in BagToSet(requests) : ConversationCreate(r)
  \/ \E r \in BagToSet(requests) : ConversationRespond(r)

\* ------------------------------------------------------------ Socket.IO
\* the sockets in room `cid:<cid>`
InRoom(cid) == {c \in 1..Len(conns) : conns[c].open /\ cid \in conns[c].rooms}

\* every connected socket (io.emit)
AllSockets == {c \in 1..Len(conns) : conns[c].open}

FieldOf(ev) == IF ev = "ack_delivered" THEN "deliveredTo" ELSE "readBy"

IsAck(t) == t.ev \in {"ack_delivered", "ack_read"}

\* acknowledgment handlers for message m and field f that have not finished
AcksInFlight(m, f) ==
  {t \in BagToSet(tasks) : IsAck(t) /\ t.msgId = m /\ FieldOf(t.ev) = f}

NewTask(ev, c, cid, msgId, pc) ==
  [ev |-> ev, conn |-> c, uid |-> conns[c].uid, cid |-> cid, msgId |-> msgId,
   pc |-> pc, list |-> <<>>, kind |-> NoKind, text |-> Null, fileUrl |-> Null,
   createdAt |-> 0, second |-> FALSE, seq |-> 0]

\* Message.id: the ids of the table follow the order of creation
NewMessageId == Len(messages) + 1

\* Message.createdAt DEFAULT CURRENT_TIMESTAMP: the clock never runs backwards,
\* and two rows created within one tick of its resolution get the same value
NewTimestamps ==
  IF messages = <<>> THEN {1}
  ELSE {messages[Len(messages)].createdAt, messages[Len(messages)].createdAt + 1}

\* uid kept in one variable shared by all sockets: the row gets the user of
\* the socket that connected last
CreatedRowSharedUid(t, id, at) ==
  [id |-> id, conversationId |-> t.cid, authorId |-> conns[Len(conns)].uid,
   kind |-> t.kind, text |-> t.text, fileUrl |-> t.fileUrl, createdAt |-> at,
   deliveredTo |-> <<>>, readBy |-> <<>>]

\* the row prisma.message.create returns for a send_message handler
CreatedRow(t, id, at) ==
  [id |-> id, conversationId |-> t.cid, authorId |-> t.uid, kind |-> t.kind,
   text |-> t.text, fileUrl |-> t.fileUrl, createdAt |-> at,
   deliveredTo |-> <<>>, readBy |-> <<>>]

Replace(t, u) == (tasks (-) SetToBag({t})) (+) SetToBag({u})

\* a rejected promise nobody handles: the process ends or only logs a warning,
\* depending on the Node.js version
UnhandledRejection(t) ==
  /\ tasks' = tasks (-) SetToBag({t})
  /\ alive' \in BOOLEAN

\* the handshake credentials a client may present: a token signed with
\* JWT_SECRET for a registered user, a token for a user that does not verify
\* (forged, expired), and no token at all (uid NoId, unsigned)
Tokens ==
  [uid : Users, signed : BOOLEAN] \cup {[uid |-> NoId, signed |-> FALSE]}

\* jwt.decode: the payload is taken without checking the signature
VerifyDecodeOnly(token) == token.uid

\* jwt.verify(token, JWT_SECRET): the uid of the payload, NoId when it throws
Verify(token) == IF token.signed THEN token.uid ELSE NoId

\* next(new Error("unauthorized")): the socket is closed before any
\* "connection" event, so no handler is registered on it
ConnectRefused ==
  /\ alive
  /\ Len(conns) < budget.conns
  /\ conns' = Append(conns, [uid |-> NoId, open |-> FALSE, rooms |-> {}])
  /\ UNCHANGED <<convVars, budget, alive, messages, lastSeenAt, tasks, emitted,
                 nEvents, nSends, acked, lastDone, nAcks, histVars>>

\* io.use + io.on("connection") for a valid token of user uid
Connect(uid) ==
  /\ alive
  /\ Len(conns) < budget.conns
  /\ conns' = Append(conns, [uid |-> uid, open |-> TRUE, rooms |-> {}])
  /\ emitted' = Append(emitted,
       [ev |-> "presence", room |-> NoId, to |-> AllSockets \cup {Len(conns) + 1},
        data |-> [userId |-> uid, state |-> "online"]])
  /\ UNCHANGED <<convVars, budget, alive, messages, lastSeenAt, tasks, nEvents,
                 nSends, acked, lastDone, nAcks, histVars>>

\* a client opens a socket presenting token
Handshake(token) ==
  IF Verify(token) # NoId THEN Connect(Verify(token)) ELSE ConnectRefused

\* a join that also hands the joining socket the broadcasts the room had
\* before
JoinConversationWithReplay(c, cid) ==
  /\ alive
  /\ c \in 1..Len(conns) /\ conns[c].open
  /\ conns' = IF cid = NoId THEN conns
              ELSE [conns EXCEPT ![c].rooms = @ \cup {cid}]
  /\ emitted' = [i \in 1..Len(emitted) |->
                   IF cid # NoId /\ emitted[i].room = cid
                   THEN [emitted[i] EXCEPT !.to = @ \cup {c}]
                   ELSE emitted[i]]
  /\ UNCHANGED <<convVars, budget, alive, messages, lastSeenAt, tasks,
                 nEvents, nSends, acked, lastDone, nAcks, histVars>>

\* socket.on("join_conversation"): socket.join(`cid:${cid}`)
JoinConversation(c, cid) ==
  /\ alive
  /\ c \in 1..Len(conns) /\ conns[c].open
  /\ conns' = IF cid = NoId THEN conns
              ELSE [conns EXCEPT ![c].rooms = @ \cup {cid}]
  /\ UNCHANGED <<convVars, budget, alive, messages, lastSeenAt, tasks, emitted,
                 nEvents, nSends, acked, lastDone, nAcks, histVars>>

LeaveConversation(c, cid) ==
  /\ alive
  /\ c \in 1..Len(conns) /\ conns[c].open
  /\ conns' = IF cid = NoId THEN conns
              ELSE [conns EXCEPT ![c].rooms = @ \ {cid}]
  /\ UNCHANGED <<convVars, budget, alive, messages, lastSeenAt, tasks, emitted,
                 nEvents, nSends, acked, lastDone, nAcks, histVars>>

\* io.to(...): the typing event goes to the whole room, the sender included
TypingToWholeRoom(c, cid, isTyping) ==
  /\ alive
  /\ c \in 1..Len(conns) /\ conns[c].open
  /\ nEvents < budget.events
  /\ IF cid = NoId
     THEN UNCHANGED <<emitted, nEvents>>
     ELSE /\ emitted' = Append(emitted,
               [ev |-> "typing", room |-> cid, to |-> InRoom(cid),
                data |-> [cid |-> cid, userId |-> conns[c].uid,
                          isTyping |-> isTyping]])
          /\ nEvents' = nEvents + 1
  /\ UNCHANGED <<convVars, budget, alive, messages, lastSeenAt, conns, tasks,
                 nSends, acked, lastDone, nAcks, histVars>>

\* socket.on("typing"): socket.to(`cid:${cid}`).emit("typing", ...)
Typing(c, cid, isTyping) ==
  /\ alive
  /\ c \in 1..Len(conns) /\ conns[c].open
  /\ nEvents < budget.events
  /\ IF cid = NoId
     THEN UNCHANGED <<emitted, nEvents>>
     ELSE /\ emitted' = Append(emitted,
               [ev |-> "typing", room |-> cid, to |-> InRoom(cid) \ {c},
                data |-> [cid |-> cid, userId |-> conns[c].uid,
                          isTyping |-> isTyping]])
          /\ nEvents' = nEvents + 1
  /\ UNCHANGED <<convVars, budget, alive, messages, lastSeenAt, conns, tasks,
                 nSends, acked, lastDone, nAcks, histVars>>

\* only the conversation id is required
SendDroppedWithoutCid(cid, kind) == cid = NoId

\* if (!cid || !kind) return
SendDropped(cid, kind) == cid = NoId \/ kind = NoKind

\* send_message up to `await prisma.message.create`
SendMessage(c, cid, kind, text, fileUrl) ==
  /\ alive
  /\ c \in 1..Len(conns) /\ conns[c].open
  /\ nEvents < budget.events
  /\ IF SendDropped(cid, kind)
     THEN UNCHANGED <<tasks, nEvents, nSends>>
     ELSE /\ tasks' = tasks (+) SetToBag({
               [NewTask("send_message", c, cid, NoId, "create")
                  EXCEPT !.kind = kind, !.text = text, !.fileUrl = fileUrl,
                         !.seq = nEvents + 1]})
          /\ nEvents' = nEvents + 1
          /\ nSends' = IF cid \in 1..Len(conversations)
                       THEN [nSends EXCEPT !.known = @ + 1]
                       ELSE [nSends EXCEPT !.unknown = @ + 1]
  /\ UNCHANGED <<convVars, budget, alive, messages, lastSeenAt, conns, emitted,
                 acked, lastDone, nAcks, histVars>>

\* the store executes message.create
MessageCreate(t) ==
  /\ alive
  /\ BagIn(t, tasks)
  /\ t.ev = "send_message" /\ t.pc = "create"
  /\ IF t.cid \in 1..Len(conversations)
     THEN /\ \E at \in NewTimestamps :
               /\ messages' = Append(messages, CreatedRow(t, NewMessageId, at))
               /\ tasks' = Replace(t, [t EXCEPT !.pc = "emit",
                                                !.msgId = NewMessageId,
                                                !.createdAt = at])
          /\ UNCHANGED alive
     ELSE \* Message_conversationId_fkey fails: the store answers with the
          \* error, which the handler meets when it resumes
          /\ tasks' = Replace(t, [t EXCEPT !.pc = "rejected"])
          /\ UNCHANGED <<messages, alive>>
  /\ UNCHANGED <<convVars, budget, lastSeenAt, conns, emitted, nEvents, nSends,
                 acked, lastDone, nAcks, histVars>>

\* the handler resumes from `await prisma.message.create` with the error and
\* rejects; nothing catches it
MessageCreateRejected(t) ==
  /\ alive
  /\ BagIn(t, tasks)
  /\ t.ev = "send_message" /\ t.pc = "rejected"
  /\ UnhandledRejection(t)
  /\ UNCHANGED <<convVars, budget, messages, lastSeenAt, conns, emitted, nEvents,
                 nSends, acked, lastDone, nAcks, histVars>>

\* io.to(`cid:${cid}`).emit("message_created", msg)
MessageEmit(t) ==
  /\ alive
  /\ BagIn(t, tasks)
  /\ t.ev = "send_message" /\ t.pc = "emit"
  /\ emitted' = Append(emitted,
       [ev |-> "message_created", room |-> t.cid, to |-> InRoom(t.cid),
        data |-> CreatedRow(t, t.msgId, t.createdAt)])
  /\ tasks' = tasks (-) SetToBag({t})
  /\ UNCHANGED <<convVars, budget, alive, messages, lastSeenAt, conns, nEvents,
                 nSends, acked, lastDone, nAcks, histVars>>

\* ack_delivered / ack_read up to `await prisma.message.findUnique`
AckReceive(ev, c, cid, msgId) ==
  /\ alive
  /\ c \in 1..Len(conns) /\ conns[c].open
  /\ nAcks < budget.acks
  /\ IF cid = NoId \/ msgId = NoId
     THEN UNCHANGED <<tasks, nAcks, lastDone>>
     ELSE LET f == FieldOf(ev)
              second == /\ lastDone[f][msgId].quiet
                        /\ lastDone[f][msgId].uid = conns[c].uid
                        /\ AcksInFlight(msgId, f) = {}
          IN /\ tasks' = tasks (+) SetToBag({
                  [NewTask(ev, c, cid, msgId, "find") EXCEPT !.second = second]})
             /\ nAcks' = nAcks + 1
             /\ lastDone' = IF second THEN lastDone
                            ELSE [lastDone EXCEPT ![f][msgId].quiet = FALSE]
  /\ UNCHANGED <<convVars, budget, alive, messages, lastSeenAt, conns, emitted,
                 nEvents, nSends, acked, histVars>>

AckDelivered(c, cid, msgId) == AckReceive("ack_delivered", c, cid, msgId)

AckRead(c, cid, msgId) == AckReceive("ack_read", c, cid, msgId)

\* the store answers findUnique; the handler adds uid if absent and issues the update
AckFind(t) ==
  /\ alive
  /\ BagIn(t, tasks)
  /\ IsAck(t) /\ t.pc = "find"
  /\ IF t.msgId \in 1..Len(messages)
     THEN LET stored == messages[t.msgId][FieldOf(t.ev)]
              list == IF t.uid \in Range(stored) THEN stored
                      ELSE Append(stored, t.uid)
          IN /\ tasks' = Replace(t, [t EXCEPT !.pc = "update", !.list = list])
     ELSE \* the store answers null, which the handler meets when it resumes
          tasks' = Replace(t, [t EXCEPT !.pc = "null"])
  /\ UNCHANGED <<convVars, budget, alive, messages, lastSeenAt, conns, emitted,
                 nEvents, nSends, acked, lastDone, nAcks, histVars>>

\* the handler resumes from `await prisma.message.findUnique` with null:
\* reading msg.deliveredTo (msg.readBy) throws inside the async handler
AckFindNull(t) ==
  /\ alive
  /\ BagIn(t, tasks)
  /\ IsAck(t) /\ t.pc = "null"
  /\ UnhandledRejection(t)
  /\ UNCHANGED <<convVars, budget, messages, lastSeenAt, conns, emitted, nEvents,
                 nSends, acked, lastDone, nAcks, histVars>>

\* the store executes message.update with the list the handler computed
AckUpdate(t) ==
  /\ alive
  /\ BagIn(t, tasks)
  /\ IsAck(t) /\ t.pc = "update"
  /\ messages' = [messages EXCEPT ![t.msgId][FieldOf(t.ev)] = t.list]
  /\ tasks' = Replace(t, [t EXCEPT !.pc = "emit"])
  /\ UNCHANGED <<convVars, budget, alive, lastSeenAt, conns, emitted, nEvents,
                 nSends, acked, lastDone, nAcks, histVars>>

\* the payload of message_updated: { msgId, deliveredTo } or { msgId, readBy }
UpdatedPayload(t) ==
  IF FieldOf(t.ev) = "deliveredTo"
  THEN [msgId |-> t.msgId, deliveredTo |-> t.list]
  ELSE [msgId |-> t.msgId, readBy |-> t.list]

\* socket.to(...): the update skips the socket that acknowledged
AckEmitToOthers(t) ==
  /\ alive
  /\ BagIn(t, tasks)
  /\ IsAck(t) /\ t.pc = "emit"
  /\ LET f == FieldOf(t.ev)
     IN /\ emitted' = Append(emitted,
             [ev |-> "message_updated", room |-> t.cid,
              to |-> InRoom(t.cid) \ {t.conn}, data |-> UpdatedPayload(t)])
        /\ tasks' = tasks (-) SetToBag({t})
        /\ acked' = IF t.msgId \in DOMAIN acked[f]
                    THEN [acked EXCEPT ![f][t.msgId] = @ \cup {t.uid}] ELSE acked
        /\ lastDone' = IF t.msgId \in DOMAIN lastDone[f]
                       THEN [lastDone EXCEPT ![f][t.msgId] =
                               [uid |-> t.uid, stored |-> messages[t.msgId][f],
                                quiet |-> AcksInFlight(t.msgId, f) \ {t} = {}
                                          /\ tasks[t] = 1]]
                       ELSE lastDone
  /\ UNCHANGED <<convVars, budget, alive, messages, lastSeenAt, conns, nEvents,
                 nSends, nAcks, histVars>>

\* io.to(`cid:${cid}`).emit("message_updated", { msgId, deliveredTo | readBy })
AckEmit(t) ==
  /\ alive
  /\ BagIn(t, tasks)
  /\ IsAck(t) /\ t.pc = "emit"
  /\ LET f == FieldOf(t.ev)
     IN /\ emitted' = Append(emitted,
             [ev |-> "message_updated", room |-> t.cid, to |-> InRoom(t.cid),
              data |-> UpdatedPayload(t)])
        /\ tasks' = tasks (-) SetToBag({t})
        /\ acked' = IF t.msgId \in DOMAIN acked[f]
                    THEN [acked EXCEPT ![f][t.msgId] = @ \cup {t.uid}] ELSE acked
        /\ lastDone' = IF t.msgId \in DOMAIN lastDone[f]
                       THEN [lastDone EXCEPT ![f][t.msgId] =
                               [uid |-> t.uid, stored |-> messages[t.msgId][f],
                                quiet |-> AcksInFlight(t.msgId, f) \ {t} = {}
                                          /\ tasks[t] = 1]]
                       ELSE lastDone
  /\ UNCHANGED <<convVars, budget, alive, messages, lastSeenAt, conns, nEvents,
                 nSends, nAcks, histVars>>

\* the socket closes: it leaves its rooms, then the disconnect handler starts
Disconnect(c) ==
  /\ alive
  /\ c \in 1..Len(conns) /\ conns[c].open
  /\ conns' = [conns EXCEPT ![c].open = FALSE, ![c].rooms = {}]
  /\ tasks' = tasks (+) SetToBag({NewTask("disconnect", c, NoId, NoId, "update")})
  /\ UNCHANGED <<convVars, budget, alive, messages, lastSeenAt, emitted, nEvents,
                 nSends, acked, lastDone, nAcks, histVars>>

\* the store executes user.update({ lastSeenAt })
LastSeenUpdate(t) ==
  /\ alive
  /\ BagIn(t, tasks)
  /\ t.ev = "disconnect" /\ t.pc = "update"
  /\ lastSeenAt' = [lastSeenAt EXCEPT ![t.uid] = @ + 1]
  /\ tasks' = Replace(t, [t EXCEPT !.pc = "emit"])
  /\ UNCHANGED <<convVars, budget, alive, messages, conns, emitted, nEvents,
                 nSends, acked, lastDone, nAcks, histVars>>

\* io.emit("presence", { userId, state: "offline" })
OfflineEmit(t) ==
  /\ alive
  /\ BagIn(t, tasks)
  /\ t.ev = "disconnect" /\ t.pc = "emit"
  /\ emitted' = Append(emitted,
       [ev |-> "presence", room |-> NoId, to |-> AllSockets,
        data |-> [userId |-> t.uid, state |-> "offline"]])
  /\ tasks' = tasks (-) SetToBag({t})
  /\ UNCHANGED <<convVars, budget, alive, messages, lastSeenAt, conns, nEvents,
                 nSends, acked, lastDone, nAcks, histVars>>

NextRT ==
  \/ \E token \in Tokens : Handshake(token)
  \/ \E c \in 1..Len(conns), cid \in Cids : JoinConversation(c, cid)
  \/ \E c \in 1..Len(conns), cid \in Cids : LeaveConversation(c, cid)
  \/ \E c \in 1..Len(conns), cid \in Cids, isTyping \in BOOLEAN :
       Typing(c, cid, isTyping)
  \/ \E c \in 1..Len(conns), cid \in Cids, p \in SendPayloads :
       SendMessage(c, cid, p.kind, p.text, p.fileUrl)
  \/ \E t \in BagToSet(tasks) : MessageCreate(t)
  \/ \E t \in BagToSet(tasks) : MessageCreateRejected(t)
  \/ \E t \in BagToSet(tasks) : MessageEmit(t)
  \/ \E c \in 1..Len(conns) : Disconnect(c)
  \/ \E t \in BagToSet(tasks) : LastSeenUpdate(t)
  \/ \E t \in BagToSet(tasks) : OfflineEmit(t)

\* send_message and its continuations, and sockets closing
NextBurst ==
  \/ \E c \in 1..Len(conns), cid \in Cids, p \in SendPayloads :
       SendMessage(c, cid, p.kind, p.text, p.fileUrl)
  \/ \E t \in BagToSet(tasks) : MessageCreate(t)
  \/ \E t \in BagToSet(tasks) : MessageCreateRejected(t)
  \/ \E t \in BagToSet(tasks) : MessageEmit(t)
  \/ \E c \in 1..Len(conns) : Disconnect(c)
  \/ \E t \in BagToSet(tasks) : LastSeenUpdate(t)
  \/ \E t \in BagToSet(tasks) : OfflineEmit(t)

NextAck ==
  \/ \E c \in 1..Len(conns), cid \in Cids, msgId \in MsgIds :
       AckDelivered(c, cid, msgId)
  \/ \E c \in 1..Len(conns), cid \in Cids, msgId \in MsgIds :
       AckRead(c, cid, msgId)
  \/ \E t \in BagToSet(tasks) : AckFind(t)
  \/ \E t \in BagToSet(tasks) : AckFindNull(t)
  \/ \E t \in BagToSet(tasks) : AckUpdate(t)
  \/ \E t \in BagToSet(tasks) : AckEmit(t)

\* ----------------------------------------------------------- GET /messages
Min(a, b) == IF a < b THEN a ELSE b

Reverse(seq) == [i \in 1..Len(seq) |-> seq[Len(seq) + 1 - i]]

\* findMany's `take` for a limit that is not negative
Take(seq, n) == SubSeq(seq, 1, Min(n, Len(seq)))

\* where: { conversationId: cid, id: { lt: before } }, the id filter only for
\* a query that names `before`
Matching(cid, before) ==
  {i \in 1..Len(messages) :
     /\ messages[i].conversationId = cid
     /\ before # NoId => messages[i].id < before}

\* orderBy: { createdAt: "desc" }: every order of the matching rows in which
\* createdAt never increases; rows of equal createdAt come in any order
DescByCreatedAt(S) ==
  {ord \in [1..Cardinality(S) -> S] :
     /\ \A i, j \in 1..Cardinality(S) : i # j => ord[i] # ord[j]
     /\ \A i, j \in 1..Cardinality(S) :
          i < j => messages[ord[i]].createdAt >= messages[ord[j]].createdAt}

\* the bodies GET /messages may answer: findMany, then messages.reverse()
History(cid, before, limit) ==
  {Reverse(Take([i \in 1..Len(ord) |-> messages[ord[i]]], limit)) :
     ord \in DescByCreatedAt(Matching(cid, before))}

Limits == (0..MaxLimit) \cup {DefaultLimit}

NoPage == [status |-> 0, cid |-> NoId, before |-> NoId, limit |-> 0, body |-> <<>>]

NotPaging == [cid |-> NoId, limit |-> 0, pages |-> <<>>, done |-> FALSE]

\* GET /messages up to `await prisma.message.findMany`; paging tells whether
\* the request is one of the paging client
GetMessages(cid, before, limit, paging) ==
  /\ alive
  /\ IF cid = NoId
     THEN /\ page' = [status |-> 400, cid |-> cid, before |-> before,
                      limit |-> limit, body |-> <<>>]
          /\ UNCHANGED fetches
     ELSE /\ BagCardinality(fetches) < MaxFetches
          /\ fetches' = fetches (+) SetToBag({
               [cid |-> cid, before |-> before, limit |-> limit,
                paging |-> paging, pc |-> "findMany", body |-> <<>>]})
          /\ UNCHANGED page
  /\ UNCHANGED <<convVars, budget, alive, rtVars>>

\* the store executes findMany and reads the rows as they are then
MessagesFindMany(g) ==
  /\ alive
  /\ BagIn(g, fetches)
  /\ g.pc = "findMany"
  /\ \E body \in History(g.cid, g.before, g.limit) :
       fetches' = (fetches (-) SetToBag({g}))
                    (+) SetToBag({[g EXCEPT !.pc = "respond", !.body = body]})
  /\ UNCHANGED <<convVars, budget, alive, rtVars, page, pager>>

\* the handler resumes: res.json(messages.reverse()); the paging client files
\* the page it asked for
MessagesRespond(g) ==
  /\ alive
  /\ BagIn(g, fetches)
  /\ g.pc = "respond"
  /\ fetches' = fetches (-) SetToBag({g})
  /\ page' = [status |-> 200, cid |-> g.cid, before |-> g.before,
              limit |-> g.limit, body |-> g.body]
  /\ pager' = IF g.paging
              THEN [pager EXCEPT !.pages = Append(@, g.body),
                                 !.done = g.body = <<>>]
              ELSE pager
  /\ UNCHANGED <<convVars, budget, alive, rtVars>>

\* the paging client has a request under way
PageAwaited == \E g \in BagToSet(fetches) : g.paging

\* a client asks for the newest page of a conversation
PageBackFirst(cid, limit) ==
  /\ pager = NotPaging
  /\ GetMessages(cid, NoId, limit, TRUE)
  /\ pager' = [cid |-> cid, limit |-> limit, pages |-> <<>>, done |-> FALSE]

\* and then for the page before the oldest message it has, until a page is empty
PageBackNext ==
  /\ pager # NotPaging /\ ~pager.done /\ ~PageAwaited
  /\ LET previous == pager.pages[Len(pager.pages)]
     IN GetMessages(pager.cid, previous[1].id, pager.limit, TRUE)
  /\ UNCHANGED pager

NextHistory ==
  \/ \E cid \in Cids, before \in 0..(MaxHist + 1), limit \in Limits :
       GetMessages(cid, before, limit, FALSE) /\ UNCHANGED pager
  \/ \E g \in BagToSet(fetches) : MessagesFindMany(g)
  \/ \E g \in BagToSet(fetches) : MessagesRespond(g)

\* one client paging backwards through a conversation
NextPaging ==
  \/ \E cid \in Cids \ {NoId}, limit \in Limits \ {0} : PageBackFirst(cid, limit)
  \/ PageBackNext
  \/ \E g \in BagToSet(fetches) : MessagesFindMany(g)
  \/ \E g \in BagToSet(fetches) : MessagesRespond(g)

\* ------------------------------------------------------- specifications
NoAck == [uid |-> NoId, stored |-> <<>>, quiet |-> FALSE]

\* a fresh server: the users are registered, nothing else has happened
InitStoreEmpty ==
  /\ conversations = <<>>
  /\ memberships = <<>>
  /\ requests = EmptyBag
  /\ nPosts = 0
  /\ firstAnswer = [p \in Pairs |-> NoId]
  /\ lastResponse = NoResponse

\* user 1 has opened the direct conversation with user 2 (one POST /conversations)
InitStoreDirect ==
  /\ conversations = <<[id |-> 1, isGroup |-> FALSE, title |-> Null]>>
  /\ memberships = <<[userId |-> 1, conversationId |-> 1],
                     [userId |-> 2, conversationId |-> 1]>>
  /\ requests = EmptyBag
  /\ nPosts = 1
  /\ firstAnswer = [p \in Pairs |-> IF p = {1, 2} THEN 1 ELSE NoId]
  /\ lastResponse = [status |-> 200, conv |-> 1, created |-> TRUE,
                     members |-> <<1, 2>>, isGroup |-> FALSE, prior |-> NoId]

InitNoAcks ==
  /\ nAcks = 0
  /\ acked = [f \in AckFields |-> [m \in 1..MaxMsgs |-> {}]]
  /\ lastDone = [f \in AckFields |-> [m \in 1..MaxMsgs |-> NoAck]]

\* no socket has connected yet
InitNoSockets ==
  /\ alive = TRUE
  /\ messages = <<>>
  /\ lastSeenAt = [u \in Users |-> 0]
  /\ conns = <<>>
  /\ tasks = EmptyBag
  /\ emitted = <<>>
  /\ nEvents = 0
  /\ nSends = [known |-> 0, unknown |-> 0]
  /\ InitNoAcks
  /\ fetches = EmptyBag
  /\ page = NoPage
  /\ pager = NotPaging

FirstMessage ==
  [id |-> 1, conversationId |-> 1, authorId |-> 1, kind |-> "text", text |-> "hi",
   fileUrl |-> Null, createdAt |-> 1, deliveredTo |-> <<>>, readBy |-> <<>>]

\* users 1 and 2 are connected and have joined room 1, and user 1 has sent a
\* first message there
InitChatting ==
  /\ alive = TRUE
  /\ messages = <<FirstMessage>>
  /\ lastSeenAt = [u \in Users |-> 0]
  /\ conns = <<[uid |-> 1, open |-> TRUE, rooms |-> {1}],
               [uid |-> 2, open |-> TRUE, rooms |-> {1}]>>
  /\ tasks = EmptyBag
  /\ emitted = <<[ev |-> "presence", room |-> NoId, to |-> {1},
                  data |-> [userId |-> 1, state |-> "online"]],
                 [ev |-> "presence", room |-> NoId, to |-> {1, 2},
                  data |-> [userId |-> 2, state |-> "online"]],
                 [ev |-> "message_created", room |-> 1, to |-> {1, 2},
                  data |-> FirstMessage]>>
  /\ nEvents = 1
  /\ nSends = [known |-> 1, unknown |-> 0]
  /\ InitNoAcks
  /\ fetches = EmptyBag
  /\ page = NoPage
  /\ pager = NotPaging

\* the Message tables a restarted server may find: ids in creation order,
\* createdAt never decreasing, each row in one of the two conversations
MessageTables ==
  {tbl \in UNION {[1..n -> [conversationId : 1..2, createdAt : 1..MaxHist]] :
                    n \in 0..MaxHist} :
     /\ Len(tbl) > 0 => tbl[1].createdAt = 1
     /\ \A i \in 2..Len(tbl) :
          tbl[i].createdAt \in {tbl[i - 1].createdAt, tbl[i - 1].createdAt + 1}}

\* the server was restarted over a store with a direct conversation, a group
\* and some messages
InitHistory ==
  /\ conversations = <<[id |-> 1, isGroup |-> FALSE, title |-> Null],
                       [id |-> 2, isGroup |-> TRUE, title |-> "team"]>>
  /\ memberships = <<[userId |-> 1, conversationId |-> 1],
                     [userId |-> 2, conversationId |-> 1],
                     [userId |-> 1, conversationId |-> 2],
                     [userId |-> 2, conversationId |-> 2]>>
  /\ requests = EmptyBag
  /\ nPosts = 0
  /\ firstAnswer = [p \in Pairs |-> NoId]
  /\ lastResponse = NoResponse
  /\ \E tbl \in MessageTables :
       messages = [i \in 1..Len(tbl) |->
                     [id |-> i, conversationId |-> tbl[i].conversationId,
                      authorId |-> 1, kind |-> "text", text |-> "hi",
                      fileUrl |-> Null, createdAt |-> tbl[i].createdAt,
                      deliveredTo |-> <<>>, readBy |-> <<>>]]
  /\ alive = TRUE
  /\ lastSeenAt = [u \in Users |-> 0]
  /\ conns = <<>>
  /\ tasks = EmptyBag
  /\ emitted = <<>>
  /\ nEvents = 0
  /\ nSends = [known |-> 0, unknown |-> 0]
  /\ InitNoAcks
  /\ fetches = EmptyBag
  /\ page = NoPage
  /\ pager = NotPaging
  /\ budget = [posts |-> 0, conns |-> 0, events |-> 0, acks |-> 0]

InitConv ==
  /\ InitStoreEmpty
  /\ InitNoSockets
  /\ budget = [posts |-> MaxPosts, conns |-> 0, events |-> 0, acks |-> 0]

InitConvRace ==
  /\ InitStoreEmpty
  /\ InitNoSockets
  /\ budget = [posts |-> MaxRacePosts, conns |-> 0, events |-> 0, acks |-> 0]

InitRT ==
  /\ InitStoreDirect
  /\ InitNoSockets
  /\ budget = [posts |-> 1, conns |-> MaxConns, events |-> MaxEvents, acks |-> 0]

InitAck ==
  /\ InitStoreDirect
  /\ InitChatting
  /\ budget = [posts |-> 1, conns |-> 2, events |-> 1, acks |-> MaxAcks]

\* users 1 and 2 are in room 1 and send further messages
InitBurst ==
  /\ InitStoreDirect
  /\ InitChatting
  /\ budget = [posts |-> 1, conns |-> 2, events |-> 1 + MaxBurst, acks |-> 0]

vars == <<convVars, budget, alive, rtVars, histVars>>

\* the conversation resolver alone
SpecConv == InitConv /\ [][NextConv]_vars

SpecConvRace == InitConvRace /\ [][NextConv]_vars

\* connections, rooms, typing and messages over an existing direct conversation
SpecRT == InitRT /\ [][NextRT]_vars

\* acknowledgments of two connected users
SpecAck == InitAck /\ [][NextAck]_vars

\* several messages in flight at once between two connected users
SpecBurst == InitBurst /\ [][NextBurst]_vars

\* reading the history of a stored chat
SpecHistory == InitHistory /\ [][NextHistory]_vars

\* a client paging backwards through the history of a stored chat
SpecPaging == InitHistory /\ [][NextPaging]_vars

\* the whole server once a direct conversation exists: one more conversation
\* request next to one socket, one typing or send_message event and one
\* acknowledgment
InitAll ==
  /\ InitStoreDirect
  /\ InitNoSockets
  /\ budget = [posts |-> 2, conns |-> 1, events |-> 1, acks |-> 1]

Next == NextConv \/ NextRT \/ NextAck

Spec == InitAll /\ [][Next]_vars

\* ------------------------------------------------------------------ claims
\* C4 (as claimed): a direct request issued after a direct request for the same
\* pair was answered gets the id of that first answer and creates nothing.
C4_DirectGetOrCreateIdempotent ==
  lastResponse.prior # NoId =>
    /\ lastResponse.status = 200
    /\ lastResponse.conv = lastResponse.prior
    /\ ~lastResponse.created

\* C5 (as claimed): every group request creates a new conversation.
C5_EveryGroupRequestCreates ==
  (lastResponse.isGroup /\ lastResponse.status # 0) =>
    lastResponse.status = 200 /\ lastResponse.created

\* C5 (amended): a group request is answered 200 exactly when its member ids
\* all name registered users, and every group request answered 200 has created
\* the conversation it returns, a group with the requested members; a group
\* request that is not answered 200 is answered 500 and returns no
\* conversation.
C5_GroupRequestCreatesFresh ==
  (lastResponse.isGroup /\ lastResponse.status # 0) =>
    /\ Range(lastResponse.members) \subseteq Users <=> lastResponse.status = 200
    /\ lastResponse.status # 200 =>
         /\ lastResponse.status = 500
         /\ lastResponse.conv = NoId
         /\ ~lastResponse.created
    /\ lastResponse.status = 200 =>
         /\ lastResponse.created
         /\ lastResponse.conv \in 1..Len(conversations)
         /\ conversations[lastResponse.conv].isGroup
         /\ MembersOf(lastResponse.conv) = Range(lastResponse.members)

\* a second group with the title and the member set of an existing group
C5_Witness ==
  /\ lastResponse.isGroup /\ lastResponse.status = 200
  /\ \E c \in 1..Len(conversations) :
       /\ c # lastResponse.conv
       /\ conversations[c].isGroup
       /\ conversations[c].title = conversations[lastResponse.conv].title
       /\ MembersOf(c) = MembersOf(lastResponse.conv)

\* C6: a step that receives a direct request whose member set
\* {requester} \cup memberIds has not exactly 2 elements answers 400 and
\* leaves the Conversation and Membership tables and the suspended handlers
\* as they were.
C6_BadDirectCardinalityRejected ==
  [][\A uid \in Users, memberIds \in SeqsUpTo(UserIds, MaxMembers), title \in Titles :
       (/\ Cardinality({uid} \cup Range(memberIds)) # 2
        /\ PostConversations(uid, memberIds, FALSE, title))
       => /\ lastResponse'.status = 400
          /\ lastResponse'.members[1] = uid
          /\ Range(lastResponse'.members) = {uid} \cup Range(memberIds)
          /\ UNCHANGED <<conversations, memberships, requests>>]_vars

\* a 400 for the requester with 2 others, reached with a non-empty store
C6_Witness ==
  /\ lastResponse.status = 400
  /\ Len(lastResponse.members) = 3
  /\ Len(conversations) >= 1

\* C7: every direct conversation has exactly 2 membership rows, of 2 distinct
\* users, and no step changes the number of membership rows of an existing
\* conversation.
DirectHasTwoMembers ==
  \A c \in 1..Len(conversations) :
    conversations[c].isGroup = FALSE =>
      Len(MembershipsOf(c)) = 2 /\ Cardinality(MembersOf(c)) = 2

MembershipCountStable ==
  \A c \in 1..Len(conversations) :
    Len(SelectSeq(memberships', LAMBDA m : m.conversationId = c))
      = Len(MembershipsOf(c))

C7_DirectAlwaysTwoMemberships ==
  []DirectHasTwoMembers /\ [][MembershipCountStable]_vars

C7_Witness ==
  /\ Len(conversations) >= 2
  /\ \E c \in 1..Len(conversations) : conversations[c].isGroup = FALSE
  /\ \E c \in 1..Len(conversations) : conversations[c].isGroup

\* C1 (as claimed): no acknowledgment is lost: once no ack_delivered (ack_read)
\* handler for a message is in flight, every user whose handler for it has
\* finished is in the stored deliveredTo (readBy).
C1_NoLostAcknowledgment ==
  \A f \in AckFields, m \in 1..MaxMsgs :
    (m <= Len(messages) /\ AcksInFlight(m, f) = {}) =>
      acked[f][m] \subseteq Range(messages[m][f])

\* C2 (as claimed): no step removes a user id from the stored deliveredTo or
\* readBy of a message.
C2_AckSetsOnlyGrow ==
  [][\A m \in 1..Len(messages), f \in AckFields :
       Range(messages[m][f]) \subseteq Range(messages'[m][f])]_vars

\* C3 (as claimed): when U's acknowledgment of m has finished and U's next
\* acknowledgment of m has written, with no other acknowledgment of m received
\* or in flight since the first finished, the stored set is the one stored
\* when the first finished.
C3_SecondAckChangesNothing ==
  \A t \in BagToSet(tasks) :
    (/\ IsAck(t) /\ t.pc = "emit" /\ t.second
     /\ lastDone[FieldOf(t.ev)][t.msgId].quiet) =>
      messages[t.msgId][FieldOf(t.ev)] = lastDone[FieldOf(t.ev)][t.msgId].stored

\* send_message handlers suspended at pc
SendsAt(pc) == {t \in BagToSet(tasks) : t.ev = "send_message" /\ t.pc = pc}

NumSendsAt(pc) == BagCardinality([t \in SendsAt(pc) |-> tasks[t]])

\* positions of the message_created broadcasts of message m
CreatedEvents(m) ==
  {i \in 1..Len(emitted) : emitted[i].ev = "message_created" /\ emitted[i].data.id = m}

\* every stored message is broadcast once, as stored, as soon as its handler
\* has reached the broadcast, and never before it is stored
BroadcastOncePerMessage ==
  /\ \A m \in 1..Len(messages) :
       /\ Cardinality(CreatedEvents(m)) =
            IF \E t \in SendsAt("emit") : t.msgId = m THEN 0 ELSE 1
       /\ \A i \in CreatedEvents(m) :
            /\ emitted[i].room = messages[m].conversationId
            /\ \A k \in {"id", "conversationId", "authorId", "kind", "text",
                         "fileUrl", "createdAt"} :
                 emitted[i].data[k] = messages[m][k]
  /\ \A i \in 1..Len(emitted) :
       emitted[i].ev = "message_created" => emitted[i].data.id \in 1..Len(messages)

\* a message_created broadcast reaches exactly the open sockets that are in
\* the room when it is made
BroadcastToWholeRoom ==
  (Len(emitted') = Len(emitted) + 1 /\ emitted'[Len(emitted')].ev = "message_created")
    => emitted'[Len(emitted')].to =
         {c \in 1..Len(conns) :
            conns[c].open /\ emitted'[Len(emitted')].room \in conns[c].rooms}

\* a send_message handler in flight can take its next step
SendGoesOn ==
  \A t \in BagToSet(tasks) :
    t.ev = "send_message" =>
      ENABLED (MessageCreate(t) \/ MessageCreateRejected(t) \/ MessageEmit(t))

\* every send_message event that passed the guard has its row in the Message
\* table or is waiting for the store to create it
EverySendStored ==
  nSends.known + nSends.unknown = Len(messages) + NumSendsAt("create")

\* C10 (as claimed): every send_message event with a cid and a kind persists
\* exactly one message and goes on to broadcast it, once and as stored, to
\* exactly the sockets in room cid at that moment, the sender's included.
C10_EverySendPersistsAndBroadcasts ==
  /\ []EverySendStored
  /\ []SendGoesOn
  /\ []BroadcastOncePerMessage
  /\ [][BroadcastToWholeRoom]_vars

\* rows of conversation cid in creation order
RowsOf(cid) == SelectSeq(messages, LAMBDA m : m.conversationId = cid)

\* C8 (as claimed): a page asked with before = M and limit = N has at most N
\* rows, all of cid and all created before M, listed in creation order, and
\* they are the last N rows of cid created before M.
C8_PageIsLastNBefore ==
  (page.status = 200 /\ page.before # NoId) =>
    LET older == SelectSeq(RowsOf(page.cid), LAMBDA m : m.id < page.before)
        n == Min(page.limit, Len(older))
    IN page.body = SubSeq(older, Len(older) - n + 1, Len(older))

RECURSIVE ConcatLastToFirst(_)
ConcatLastToFirst(pages) ==
  IF pages = <<>> THEN <<>>
  ELSE pages[Len(pages)] \o ConcatLastToFirst(SubSeq(pages, 1, Len(pages) - 1))

\* C9 (as claimed): when paging backwards has reached an empty page, no two
\* pages share a message id and the pages, last to first, are the rows of the
\* conversation in creation order.
C9_PagingReconstructsHistory ==
  pager.done =>
    /\ ConcatLastToFirst(pager.pages) = RowsOf(pager.cid)
    /\ \A i, j \in 1..Len(pager.pages) :
         i # j => {m.id : m \in Range(pager.pages[i])}
                    \cap {m.id : m \in Range(pager.pages[j])} = {}

\* C11: a typing event handled for socket c and room cid is broadcast once, to
\* exactly the open sockets in room cid other than c, never to c, and carries
\* cid, the user id c authenticated with and the typing flag.
C11_TypingReachesOthersOnly ==
  [][\A c \in 1..Len(conns), cid \in Cids \ {NoId}, isTyping \in BOOLEAN :
       Typing(c, cid, isTyping) =>
         /\ Len(emitted') = Len(emitted) + 1
         /\ SubSeq(emitted', 1, Len(emitted)) = emitted
         /\ LET e == emitted'[Len(emitted')]
            IN /\ e.ev = "typing" /\ e.room = cid
               /\ e.to = {d \in 1..Len(conns) :
                            d # c /\ conns[d].open /\ cid \in conns[d].rooms}
               /\ c \notin e.to
               /\ e.data = [cid |-> cid, userId |-> conns[c].uid,
                            isTyping |-> isTyping]]_vars

\* a typing event of a socket that is in the room itself has gone to another
\* socket of the room and not to the sender
C11_Witness ==
  /\ emitted # <<>>
  /\ LET e == emitted[Len(emitted)]
     IN /\ e.ev = "typing"
        /\ e.to # {}
        /\ \E c \in 1..Len(conns) :
             /\ conns[c].open /\ e.room \in conns[c].rooms
             /\ conns[c].uid = e.data.userId
             /\ c \notin e.to

\* C12: a socket whose handshake token is missing or does not verify is
\* closed at once: the handshake step changes nothing but the list of sockets,
\* and such a socket is never open, never in a room, never the origin of a
\* handler and never the recipient of a broadcast.
RefusedStayOut ==
  /\ \A c \in 1..Len(conns) :
       conns[c].uid \notin Users => ~conns[c].open /\ conns[c].rooms = {}
  /\ \A t \in BagToSet(tasks) : t.uid \in Users /\ conns[t.conn].uid = t.uid
  /\ \A i \in 1..Len(emitted) :
       \A c \in emitted[i].to : conns[c].uid \in Users

RefusedHandshakeChangesNothing ==
  \A token \in Tokens :
    (~token.signed /\ Handshake(token)) =>
      /\ conns' = Append(conns, [uid |-> NoId, open |-> FALSE, rooms |-> {}])
      /\ UNCHANGED <<conversations, memberships, messages, lastSeenAt, tasks,
                     emitted>>

C12_UnverifiedSocketDoesNothing ==
  []RefusedStayOut /\ [][RefusedHandshakeChangesNothing]_vars

\* a socket was refused while another socket is connected, and events have
\* been broadcast
C12_Witness ==
  /\ \E c \in 1..Len(conns) : conns[c].uid = NoId
  /\ \E c \in 1..Len(conns) : conns[c].open
  /\ Len(emitted) >= 2

\* C13 (as claimed): a failing event handler aborts only its own event: the
\* process is running in every reachable state, whatever handler has failed.
C13_FailedHandlerLeavesServerRunning == alive

\* C14 (as claimed): every stored message of kind text has a text and every
\* stored message of kind file has a file reference.
C14_KindMatchesPayload ==
  \A m \in 1..Len(messages) :
    /\ messages[m].kind = "text" => messages[m].text # Null
    /\ messages[m].kind = "file" => messages[m].fileUrl # Null

\* C15: the step that completes U's ack_delivered (ack_read) of a stored
\* message m of conversation cid broadcasts one message_updated to exactly the
\* open sockets in room cid at that moment; its payload holds the message id
\* and the one list deliveredTo (readBy), nothing else, and U is in the list.
C15_AckBroadcastsPartialUpdate ==
  [][\A t \in BagToSet(tasks) :
       (/\ AckEmit(t)
        /\ t.msgId \in 1..Len(messages)
        /\ messages[t.msgId].conversationId = t.cid) =>
         /\ Len(emitted') = Len(emitted) + 1
         /\ SubSeq(emitted', 1, Len(emitted)) = emitted
         /\ LET e == emitted'[Len(emitted')]
                f == IF t.ev = "ack_delivered" THEN "deliveredTo" ELSE "readBy"
            IN /\ e.ev = "message_updated" /\ e.room = t.cid
               /\ e.to = {c \in 1..Len(conns) :
                            conns[c].open /\ t.cid \in conns[c].rooms}
               /\ DOMAIN e.data = {"msgId", f}
               /\ e.data.msgId = t.msgId
               /\ t.uid \in Range(e.data[f])]_vars

\* user 2 has acknowledged message 1 of conversation 1 as read and both sockets
\* of the room, the acknowledging one included, got the update
C15_Witness ==
  /\ emitted # <<>>
  /\ LET e == emitted[Len(emitted)]
     IN /\ e.ev = "message_updated" /\ e.room = 1
        /\ DOMAIN e.data = {"msgId", "readBy"}
        /\ e.data.msgId = 1 /\ 2 \in Range(e.data.readBy)
        /\ e.to = {1, 2}

\* C16 (as claimed): when the message_created of a send_message is broadcast
\* to a room that has sockets in it, no send_message that the same socket
\* emitted earlier for the same stored conversation is still waiting to be
\* stored or broadcast.
C16_BroadcastsFollowEmissionOrder ==
  [][\A t \in BagToSet(tasks) :
       (MessageEmit(t) /\ InRoom(t.cid) # {}) =>
         ~\E u \in BagToSet(tasks) :
            /\ u.ev = "send_message"
            /\ u.conn = t.conn /\ u.cid = t.cid
            /\ u.seq < t.seq]_vars

\* no step starts a send_message or acknowledgment handler for a socket that
\* is closed
ClosedSocketStartsNothing ==
  \A t \in BagToSet(tasks') :
    (/\ t.ev # "disconnect" /\ t.pc \in {"create", "find"}
     /\ CopiesIn(t, tasks') > CopiesIn(t, tasks)) =>
      conns[t.conn].open

\* a send_message or acknowledgment handler whose socket has closed can take
\* its next step
InFlightOfClosedSocketGoesOn ==
  \A t \in BagToSet(tasks) :
    (t.ev # "disconnect" /\ ~conns[t.conn].open) =>
      ENABLED (\/ MessageCreate(t) \/ MessageCreateRejected(t) \/ MessageEmit(t)
               \/ AckFind(t) \/ AckFindNull(t) \/ AckUpdate(t) \/ AckEmit(t))

\* C17 (as claimed): a closed socket starts no further handler, and every
\* send_message or acknowledgment it started before closing goes on to its
\* store write and its broadcast.
C17_InFlightWorkOutlivesSocket ==
  []InFlightOfClosedSocketGoesOn /\ [][ClosedSocketStartsNothing]_vars

\* a step adds at most one broadcast and never touches an earlier one; a
\* broadcast to a room goes only to sockets that are open and in the room when
\* it is made
BroadcastOnlyToPresent ==
  \/ emitted' = emitted
  \/ /\ Len(emitted') = Len(emitted) + 1
     /\ SubSeq(emitted', 1, Len(emitted)) = emitted
     /\ LET e == emitted'[Len(emitted')]
        IN e.room # NoId =>
             e.to \subseteq {c \in 1..Len(conns) :
                               conns[c].open /\ e.room \in conns[c].rooms}

\* every broadcast message is in every answer of GET /messages?cid=<room>
BroadcastMessageInHistory ==
  \A i \in 1..Len(emitted) :
    emitted[i].ev = "message_created" =>
      \A body \in History(emitted[i].room, NoId, DefaultLimit) :
        \E k \in 1..Len(body) : body[k].id = emitted[i].data.id

\* C18: a broadcast to a room reaches only the sockets in the room at that
\* moment and is never delivered later: no step, joining included, adds a
\* recipient to a broadcast already made; the broadcast message stays in the
\* history of the conversation.
C18_RoomBroadcastsNotQueued ==
  [][BroadcastOnlyToPresent]_vars /\ []BroadcastMessageInHistory

\* a socket is in a room whose message_created broadcast it did not get,
\* because it joined afterwards
C18_Witness ==
  \E i \in 1..Len(emitted), c \in 1..Len(conns) :
    /\ emitted[i].ev = "message_created"
    /\ emitted[i].to # {}
    /\ conns[c].open /\ emitted[i].room \in conns[c].rooms
    /\ c \notin emitted[i].to

\* the events the handlers drop: no cid, or no kind for send_message, or no
\* msgId for an acknowledgment
MalformedEvent ==
  \E c \in 1..Len(conns) :
    \/ JoinConversation(c, NoId)
    \/ LeaveConversation(c, NoId)
    \/ \E isTyping \in BOOLEAN : Typing(c, NoId, isTyping)
    \/ \E cid \in Cids, p \in SendPayloads :
         /\ cid = NoId \/ p.kind = NoKind
         /\ SendMessage(c, cid, p.kind, p.text, p.fileUrl)
    \/ \E cid \in Cids, msgId \in MsgIds :
         /\ cid = NoId \/ msgId = NoId
         /\ AckDelivered(c, cid, msgId) \/ AckRead(c, cid, msgId)

OfflineEvents(u) ==
  {i \in 1..Len(emitted) :
     /\ emitted[i].ev = "presence"
     /\ emitted[i].data = [userId |-> u, state |-> "offline"]}

\* the disconnect handlers of user u still in flight, by position
DisconnectsInFlight(u, pc) ==
  {c \in 1..Len(conns) :
     \E t \in BagToSet(tasks) :
       t.ev = "disconnect" /\ t.conn = c /\ t.uid = u /\ t.pc = pc}

\* the closed sockets that had been authenticated as user u
ClosedSockets(u) ==
  {c \in 1..Len(conns) : conns[c].uid = u /\ ~conns[c].open}

\* every closed socket of a user is accounted for by a handler still in flight
\* or by an offline broadcast, and every offline broadcast and every handler
\* past its write is matched by a lastSeenAt write
OfflineFollowsLastSeen ==
  \A u \in Users :
    /\ Cardinality(ClosedSockets(u)) =
         Cardinality(OfflineEvents(u)) + Cardinality(DisconnectsInFlight(u, "update"))
           + Cardinality(DisconnectsInFlight(u, "emit"))
    /\ lastSeenAt[u] =
         Cardinality(OfflineEvents(u)) + Cardinality(DisconnectsInFlight(u, "emit"))

\* an offline presence broadcast goes to every socket open when it is made
OfflineToAll ==
  (/\ Len(emitted') = Len(emitted) + 1
   /\ emitted'[Len(emitted')].ev = "presence"
   /\ emitted'[Len(emitted')].data.state = "offline")
    => emitted'[Len(emitted')].to = AllSockets

\* a disconnect handler in flight can take its next step
DisconnectGoesOn ==
  \A t \in BagToSet(tasks) :
    t.ev = "disconnect" => ENABLED (LastSeenUpdate(t) \/ OfflineEmit(t))

\* C20 (as claimed): every disconnect of an authenticated socket goes on to
\* the lastSeenAt write and then to the offline presence broadcast to all
\* sockets, whatever other sockets the user still has.
C20_DisconnectLeadsToOffline ==
  []DisconnectGoesOn /\ []OfflineFollowsLastSeen /\ [][OfflineToAll]_vars

\* the direct conversations stored for the unordered pair p
DirectConversationsOf(p) ==
  {c \in 1..Len(conversations) :
     ~conversations[c].isGroup /\ MembersOf(c) = p}

\* C21 (as claimed): the store never holds two direct conversations of the
\* same unordered pair of users, however the findFirst and create steps of
\* concurrent requests interleave.
C21_OneDirectConversationPerPair ==
  \A p \in Pairs : Cardinality(DirectConversationsOf(p)) <= 1

\* the message_updated broadcasts made for field f of message m, by position
UpdatesOf(m, f) ==
  {i \in 1..Len(emitted) :
     /\ emitted[i].ev = "message_updated"
     /\ f \in DOMAIN emitted[i].data
     /\ emitted[i].data.msgId = m}

\* the list carried by the last message_updated broadcast for field f of m
LastUpdateOf(m, f) ==
  LET last == CHOOSE i \in UpdatesOf(m, f) : \A j \in UpdatesOf(m, f) : j <= i
  IN emitted[last].data[f]

\* C22 (as claimed): once no ack_delivered (ack_read) handler for a message is
\* in flight, the list carried by the last message_updated broadcast for it is
\* the deliveredTo (readBy) stored for it.
C22_LastUpdateIsStoredState ==
  \A f \in AckFields, m \in 1..Len(messages) :
    (AcksInFlight(m, f) = {} /\ UpdatesOf(m, f) # {}) =>
      LastUpdateOf(m, f) = messages[m][f]

\* the user a handshake with token verifies: the uid of a token signed with
\* the server's secret, nobody otherwise
VerifiedUser(token) ==
  IF token \in [uid : Users, signed : {TRUE}] THEN token.uid ELSE NoId

\* the broadcast a step has added
NewEvent == emitted'[Len(emitted')]

\* a socket gets its user at the handshake, from the verified token, and the
\* online presence event names that user
IdentityFromHandshake ==
  \A token \in Tokens :
    Handshake(token) =>
      /\ Len(conns') = Len(conns) + 1
      /\ conns'[Len(conns')].uid = VerifiedUser(token)
      /\ IF VerifiedUser(token) = NoId
         THEN emitted' = emitted
         ELSE /\ Len(emitted') = Len(emitted) + 1
              /\ NewEvent.ev = "presence"
              /\ NewEvent.data.userId = VerifiedUser(token)

\* no step changes the user of a socket
IdentityNeverChanges ==
  \A c \in 1..Len(conns) : c <= Len(conns') /\ conns'[c].uid = conns[c].uid

\* whatever cid, kind, text and fileUrl a send_message event carries, the row
\* stored for it has the user of the socket it came from as author
AuthorIsSocketUser ==
  /\ \A c \in 1..Len(conns), cid \in Cids, p \in SendPayloads :
       SendMessage(c, cid, p.kind, p.text, p.fileUrl) =>
         \A t \in BagToSet(tasks') :
           (t \notin BagToSet(tasks) \/ tasks'[t] > tasks[t]) =>
             t.conn = c /\ t.uid = conns[c].uid
  /\ \A t \in BagToSet(tasks) :
       (MessageCreate(t) /\ messages' # messages) =>
         /\ Len(messages') = Len(messages) + 1
         /\ messages'[Len(messages')].authorId = conns[t.conn].uid
         /\ SubSeq(messages', 1, Len(messages)) = messages
  /\ \A t \in BagToSet(tasks) :
       MessageEmit(t) =>
         /\ Len(emitted') = Len(emitted) + 1
         /\ NewEvent.ev = "message_created"
         /\ NewEvent.data.authorId = conns[t.conn].uid

\* a typing event and an offline presence event name the user of the socket
\* that caused them
EventUserIsSocketUser ==
  /\ \A c \in 1..Len(conns), cid \in Cids \ {NoId}, isTyping \in BOOLEAN :
       Typing(c, cid, isTyping) =>
         /\ Len(emitted') = Len(emitted) + 1
         /\ NewEvent.ev = "typing"
         /\ NewEvent.data.userId = conns[c].uid
  /\ \A t \in BagToSet(tasks) :
       OfflineEmit(t) =>
         /\ Len(emitted') = Len(emitted) + 1
         /\ NewEvent.ev = "presence"
         /\ NewEvent.data.userId = conns[t.conn].uid

\* C23: the author of every stored message and the user named by every typing
\* and presence event is the user verified at the handshake of the socket
\* that caused it, whatever the event carried.
C23_IdentityComesFromHandshake ==
  /\ [][IdentityFromHandshake]_vars
  /\ [][IdentityNeverChanges]_vars
  /\ [][AuthorIsSocketUser]_vars
  /\ [][EventUserIsSocketUser]_vars

\* the socket of one user has stored and broadcast a message as its own
\* while a socket of another user, connected after it, is open
C23_Witness ==
  /\ Len(conns) = 2 /\ conns[2].open
  /\ conns[1].uid # NoId /\ conns[2].uid \notin {NoId, conns[1].uid}
  /\ \E m \in 1..Len(messages) : messages[m].authorId = conns[1].uid
  /\ \E i \in 1..Len(emitted) :
       /\ emitted[i].ev = "message_created"
       /\ emitted[i].data.authorId = conns[1].uid
       /\ 2 \in emitted[i].to

\* a message_updated broadcast reaches only sockets that are in the room of
\* the message's conversation when it is made
UpdateOnlyToMessageRoom ==
  (/\ Len(emitted') = Len(emitted) + 1
   /\ NewEvent.ev = "message_updated")
    => NewEvent.to \subseteq InRoom(messages[NewEvent.data.msgId].conversationId)

\* C24 (as claimed): whatever cid and msgId an acknowledgment carries, the
\* message_updated event for a message reaches no socket outside the room of
\* that message's conversation.
C24_UpdateStaysInMessageRoom == [][UpdateOnlyToMessageRoom]_vars

====
